---- MODULE Spec2Model ----
(***************************************************************************)
(* Doubly linked list of src/data-structures/linked-lists/linked-list.js.  *)
(* The heap of Node objects is a set of cells 1..nalloc with the fields    *)
(* value, next and previous; the LinkedList object is first, last, size.   *)
(* Every method is an operator from a list state to the list state it      *)
(* leaves and the value it returns; every action applies one method.       *)
(***************************************************************************)
EXTENDS Integers, Sequences, FiniteSets, TLC

\* ---------------------------------------------------------------- bounds
MaxNodes == 4                  \* Node objects the heap holds
MaxAlloc == 3                  \* Node objects created in one behaviour of Spec
NumValues == 2                 \* distinct payloads stored in the list
MaxDeficit == 2                \* size is followed down to -MaxDeficit
MaxNegative == 2               \* positions are drawn from -MaxNegative up

Nodes == 1..MaxNodes
Values == 1..NumValues
Positions == (0 - MaxNegative)..(MaxNodes + 1)
WalkLimit == MaxNodes + 2      \* positions 0..MaxNodes+1 are all visited

\* ---------------------------------------------------------------- values
NULL == 0                      \* the null reference

Undefined == [kind |-> "undefined", val |-> 0]
Null == [kind |-> "null", val |-> 0]
False == [kind |-> "false", val |-> 0]
Thrown == [kind |-> "throw", val |-> 0]        \* TypeError: property of null
Diverged == [kind |-> "diverge", val |-> 0]    \* the traversal never ends
NodeRef(n) == [kind |-> "node", val |-> n]
ValueOf(v) == [kind |-> "value", val |-> v]
IndexOf(i) == [kind |-> "index", val |-> i]

IsAbsent(r) == r.kind \in {"undefined", "null"}
Halts(r) == r.kind \in {"throw", "diverge"}

VARIABLES first, last, size, next, previous, value, nalloc, ret, op, ref, ends

vars == <<first, last, size, next, previous, value, nalloc, ret, op, ref, ends>>

\* The list object and the heap, as one value the methods transform.
List == [first |-> first, last |-> last, size |-> size, next |-> next,
         previous |-> previous, value |-> value, nalloc |-> nalloc]

Out(s, r) == [s |-> s, ret |-> r]

\* constructor(): an empty list.
EmptyList == [first |-> NULL, last |-> NULL, size |-> 0,
              next |-> [n \in Nodes |-> NULL],
              previous |-> [n \in Nodes |-> NULL],
              value |-> [n \in Nodes |-> NULL],
              nalloc |-> 0]

\* new Node(value): a fresh cell with null links.
NewNode(s, v) == [s EXCEPT !.nalloc = s.nalloc + 1,
                           !.value[s.nalloc + 1] = v,
                           !.next[s.nalloc + 1] = NULL,
                           !.previous[s.nalloc + 1] = NULL]

\* ------------------------------------------------------------- traversal
\* find(callback): the callback is a function of (node, position).
\* find testing `if (result)`: a falsy result such as position 0 is passed over.
RECURSIVE findFromTruthy(_, _, _, _)
findFromTruthy(s, callback, current, position) ==
  IF current = NULL THEN Undefined
  ELSE IF position >= WalkLimit THEN Diverged
  ELSE LET result == callback[current, position] IN
       IF result \notin {Undefined, Null, False, [kind |-> "index", val |-> 0]}
         THEN result
         ELSE findFromTruthy(s, callback, s.next[current], position + 1)

RECURSIVE findFrom(_, _, _, _)
findFrom(s, callback, current, position) ==
  IF current = NULL THEN Undefined
  ELSE IF position >= WalkLimit THEN Diverged
  ELSE LET result == callback[current, position] IN
       IF result # Undefined THEN result
       ELSE findFrom(s, callback, s.next[current], position + 1)

find(s, callback) == findFrom(s, callback, s.first, 0)

\* The loop of find that goes on after a result instead of returning it.
RECURSIVE findCallsNoStop(_, _, _, _)
findCallsNoStop(s, callback, current, position) ==
  IF current = NULL \/ position >= WalkLimit THEN <<>>
  ELSE <<(<<current, position>>)>>
         \o findCallsNoStop(s, callback, s.next[current], position + 1)

\* The invocations callback(current, position) the loop of find makes, in order.
RECURSIVE findCalls(_, _, _, _)
findCalls(s, callback, current, position) ==
  IF current = NULL \/ position >= WalkLimit THEN <<>>
  ELSE <<(<<current, position>>)>>
         \o (IF callback[current, position] # Undefined THEN <<>>
             ELSE findCalls(s, callback, s.next[current], position + 1))

\* Callbacks given to find: result at the positions of hits, undefined elsewhere.
\* The results are false, 0, null and a payload.
CallbackResults == {False, IndexOf(0), Null, ValueOf(1)}
CallbackHits == SUBSET (0..(MaxAlloc - 1))
Callback(hits, result) == [current \in Nodes, position \in 0..WalkLimit |->
                             IF position \in hits THEN result ELSE Undefined]

get(s, index) ==
  find(s, [current \in Nodes, position \in 0..WalkLimit |->
             IF position = index THEN NodeRef(current) ELSE Undefined])

indexOf(s, v) ==
  find(s, [current \in Nodes, position \in 0..WalkLimit |->
             IF s.value[current] = v THEN IndexOf(position) ELSE Undefined])

\* ------------------------------------------------------------- insertion
addFirst(s, v) ==
  LET newNode == s.nalloc + 1
      s1 == [NewNode(s, v) EXCEPT !.next[newNode] = s.first]
      s2 == IF s.first # NULL
              THEN [s1 EXCEPT !.previous[s.first] = newNode]
              ELSE [s1 EXCEPT !.last = newNode]
  IN Out([s2 EXCEPT !.first = newNode, !.size = s.size + 1], NodeRef(newNode))

\* addLast without line 51: the tail reference is not moved to the new node.
addLastKeepsTail(s, v) ==
  LET newNode == s.nalloc + 1
      s1 == NewNode(s, v)
  IN IF s.first # NULL
       THEN Out([s1 EXCEPT !.previous[newNode] = s.last,
                           !.next[s.last] = newNode,
                           !.size = s.size + 1], NodeRef(newNode))
       ELSE Out([s1 EXCEPT !.first = newNode, !.last = newNode,
                           !.size = s.size + 1], NodeRef(newNode))

addLast(s, v) ==
  LET newNode == s.nalloc + 1
      s1 == NewNode(s, v)
      s2 == IF s.first # NULL
              THEN IF s.last = NULL
                     THEN [s |-> [s1 EXCEPT !.previous[newNode] = s.last], t |-> TRUE]
                     ELSE [s |-> [s1 EXCEPT !.previous[newNode] = s.last,
                                            !.next[s.last] = newNode,
                                            !.last = newNode], t |-> FALSE]
              ELSE [s |-> [s1 EXCEPT !.first = newNode, !.last = newNode], t |-> FALSE]
  IN IF s2.t THEN Out(s2.s, Thrown)
     ELSE Out([s2.s EXCEPT !.size = s.size + 1], NodeRef(newNode))

\* add writing `current.next = newNode` for `current.previous.next = newNode`.
addSplicesAfter(s, v, position) ==
  IF position = 0 THEN addFirst(s, v)
  ELSE IF position = s.size THEN addLast(s, v)
  ELSE LET current == get(s, position) IN
       IF current.kind = "diverge" THEN Out(s, Diverged)
       ELSE IF current.kind = "node" THEN
         LET cur == current.val
             newNode == s.nalloc + 1
             s1 == [NewNode(s, v) EXCEPT !.previous[newNode] = s.previous[cur],
                                         !.next[newNode] = cur]
             after == s1.next[cur]
             s2 == [s1 EXCEPT !.next[cur] = newNode]
             s3 == IF after # NULL THEN [s2 EXCEPT !.previous[after] = newNode] ELSE s2
         IN Out([s3 EXCEPT !.size = s.size + 1], NodeRef(newNode))
       ELSE Out(s, Undefined)

add(s, v, position) ==
  IF position = 0 THEN addFirst(s, v)
  ELSE IF position = s.size THEN addLast(s, v)
  ELSE LET current == get(s, position) IN
       IF current.kind = "diverge" THEN Out(s, Diverged)
       ELSE IF current.kind = "node" THEN
         LET cur == current.val
             newNode == s.nalloc + 1
             s1 == [NewNode(s, v) EXCEPT !.previous[newNode] = s.previous[cur],
                                         !.next[newNode] = cur]
             before == s1.previous[cur]
             s2 == [s1 EXCEPT !.next[before] = newNode]
             after == s2.next[cur]
             s3 == IF after # NULL THEN [s2 EXCEPT !.previous[after] = newNode] ELSE s2
         IN IF before = NULL THEN Out(s1, Thrown)
            ELSE Out([s3 EXCEPT !.size = s.size + 1], NodeRef(newNode))
       ELSE Out(s, Undefined)

\* --------------------------------------------------------------- removal
removeFirst(s) ==
  LET head == s.first
      s1 == [s EXCEPT !.first = s.next[head]]
      s2 == IF s1.first # NULL THEN [s1 EXCEPT !.previous[s1.first] = NULL] ELSE s1
  IN IF head # NULL
       THEN Out([s2 EXCEPT !.size = s.size - 1], ValueOf(s.value[head]))
       ELSE Out([s EXCEPT !.last = NULL], Null)

removeLast(s) ==
  LET tail == s.last
      s1 == [s EXCEPT !.last = s.previous[tail]]
      s2 == IF s1.last # NULL THEN [s1 EXCEPT !.next[s1.last] = NULL]
                              ELSE [s1 EXCEPT !.first = NULL]
  IN IF tail # NULL
       THEN Out([s2 EXCEPT !.size = s.size - 1], ValueOf(s.value[tail]))
       ELSE Out(s, Null)

removeByPosition(s, position) ==
  LET current == get(s, position)
      result == IF current.kind = "node" THEN ValueOf(s.value[current.val])
                                         ELSE Undefined
  IN IF current.kind = "diverge" THEN Out(s, Diverged)
     ELSE IF position = 0 THEN Out(removeFirst(s).s, result)
     ELSE IF position = s.size - 1 THEN Out(removeLast(s).s, result)
     ELSE IF current.kind = "node" THEN
       LET cur == current.val
           before == s.previous[cur]
           s1 == [s EXCEPT !.next[before] = s.next[cur]]
           after == s1.next[cur]
           s2 == [s1 EXCEPT !.previous[after] = s1.previous[cur]]
       IN IF before = NULL THEN Out(s, Thrown)
          ELSE IF after = NULL THEN Out(s1, Thrown)
          ELSE Out([s2 EXCEPT !.size = s.size - 1], result)
     ELSE Out(s, result)

\* remove(callbackOrIndex): the argument is a number, a text that is not a
\* number, or a function (node, index) => node.value === val.
NumberArg(n) == [kind |-> "number", val |-> n]
TextArg == [kind |-> "text", val |-> 0]
FunctionArg(v) == [kind |-> "function", val |-> v]
RemoveArgs == {NumberArg(n) : n \in Positions} \cup {TextArg}
                \cup {FunctionArg(v) : v \in Values}

\* parseInt(x, 10): NaN for a text without leading digits.
NaN == [nan |-> TRUE, val |-> 0]
parseInt(arg) == IF arg.kind = "number" THEN [nan |-> FALSE, val |-> arg.val] ELSE NaN

\* x || 0: NaN and 0 are falsy.
OrZero(x) == IF x.nan \/ x.val = 0 THEN 0 ELSE x.val

remove(s, callbackOrIndex) ==
  IF callbackOrIndex.kind # "function"
    THEN removeByPosition(s, OrZero(parseInt(callbackOrIndex)))
    ELSE LET position == find(s, [node \in Nodes, index \in 0..WalkLimit |->
                                    IF s.value[node] = callbackOrIndex.val
                                      THEN IndexOf(index) ELSE Undefined])
         IN IF position.kind = "diverge" THEN Out(s, Diverged)
            ELSE IF position # Undefined THEN removeByPosition(s, position.val)
            ELSE Out(s, False)

\* ------------------------------------------------- reference sequence
\* ref is the sequence of values a double-ended queue holds after the same
\* calls; it is followed while only the four end operations have been called
\* (ends), and dropped at the first call of another method.
RefRemoveFirst(q) == IF q = <<>> THEN q ELSE Tail(q)
RefRemoveLast(q) == IF q = <<>> THEN q ELSE SubSeq(q, 1, Len(q) - 1)
RefFirst(q) == IF q = <<>> THEN Null ELSE ValueOf(q[1])
RefLast(q) == IF q = <<>> THEN Null ELSE ValueOf(q[Len(q)])

\* ------------------------------------------------------------ the machine

Init ==
  /\ first = EmptyList.first
  /\ last = EmptyList.last
  /\ size = EmptyList.size
  /\ next = EmptyList.next
  /\ previous = EmptyList.previous
  /\ value = EmptyList.value
  /\ nalloc = EmptyList.nalloc
  /\ ret = Undefined
  /\ op = "new"
  /\ ref = <<>>
  /\ ends = TRUE

\* One call of a method: the list becomes what the method leaves, ret what it
\* returns and op its name.  A call that throws or never returns ends the
\* behaviour.
Apply(r, name) ==
  /\ ~Halts(ret)
  /\ r.s.nalloc <= MaxNodes
  /\ r.s.size >= 0 - MaxDeficit
  /\ first' = r.s.first
  /\ last' = r.s.last
  /\ size' = r.s.size
  /\ next' = r.s.next
  /\ previous' = r.s.previous
  /\ value' = r.s.value
  /\ nalloc' = r.s.nalloc
  /\ ret' = r.ret
  /\ op' = name

Follow(q) == ends' = ends /\ ref' = IF ends THEN q ELSE ref
Drop == ends' = FALSE /\ ref' = <<>>

\* The insertions, with payloads drawn from V and at most budget nodes created.
AddFirstOf(V, budget) == \E v \in V :
  nalloc < budget /\ Apply(addFirst(List, v), "addFirst") /\ Follow(<<v>> \o ref)

AddLastOf(V, budget) == \E v \in V :
  nalloc < budget /\ Apply(addLast(List, v), "addLast") /\ Follow(Append(ref, v))

AddOf(V, budget) == \E v \in V, p \in Positions :
  add(List, v, p).s.nalloc <= budget /\ Apply(add(List, v, p), "add") /\ Drop

AddFirst == AddFirstOf(Values, MaxAlloc)

AddLast == AddLastOf(Values, MaxAlloc)

Add == AddOf(Values, MaxAlloc)

RemoveFirst ==
  Apply(removeFirst(List), "removeFirst") /\ Follow(RefRemoveFirst(ref))

RemoveLast ==
  Apply(removeLast(List), "removeLast") /\ Follow(RefRemoveLast(ref))

RemoveByPosition == \E p \in Positions :
  Apply(removeByPosition(List, p), "removeByPosition") /\ Drop

Remove == \E arg \in RemoveArgs :
  Apply(remove(List, arg), "remove") /\ Drop

\* The queries leave the list as it is.
Get == \E i \in Positions :
  Apply(Out(List, get(List, i)), "get") /\ UNCHANGED <<ref, ends>>

IndexOfValue == \E v \in Values :
  Apply(Out(List, indexOf(List, v)), "indexOf") /\ UNCHANGED <<ref, ends>>

Find == \E hits \in CallbackHits, result \in CallbackResults :
  Apply(Out(List, find(List, Callback(hits, result))), "find")
    /\ UNCHANGED <<ref, ends>>

Next == AddFirst \/ AddLast \/ Add \/ RemoveFirst \/ RemoveLast
          \/ RemoveByPosition \/ Remove \/ Get \/ IndexOfValue

\* The methods that change the list by position, storing one payload only,
\* and find: the callbacks here answer by position alone.
AddFirstPlain == AddFirstOf({1}, MaxAlloc)

AddLastPlain == AddLastOf({1}, MaxAlloc)

AddPlain == AddOf({1}, MaxAlloc)

NextFind == AddFirstPlain \/ AddLastPlain \/ AddPlain \/ RemoveFirst
              \/ RemoveLast \/ RemoveByPosition \/ Find

SpecFind == Init /\ [][NextFind]_vars

\* Only the four end operations are called (push, pop, unshift, shift).
NextDeque == AddFirst \/ AddLast \/ RemoveFirst \/ RemoveLast

SpecDeque == Init /\ [][NextDeque]_vars

\* The methods that change the list, storing one payload only: the links do
\* not depend on the payloads, and the heap is used in full.
AddFirstOne == AddFirstOf({1}, MaxNodes)

AddLastOne == AddLastOf({1}, MaxNodes)

AddOne == AddOf({1}, MaxNodes)

NextLinks == AddFirstOne \/ AddLastOne \/ AddOne \/ RemoveFirst \/ RemoveLast
               \/ RemoveByPosition \/ Remove

SpecLinks == Init /\ [][NextLinks]_vars

\* Only addFirst and addLast are called, and the list is then queried.
NextAdds == AddFirst \/ AddLast \/ Get

SpecAdds == Init /\ [][NextAdds]_vars

Spec == Init /\ [][Next]_vars

\* ------------------------------------------------------------- observers
\* The nodes met by following next from n, at most fuel of them.
RECURSIVE Walk(_, _)
Walk(n, fuel) == IF n = NULL \/ fuel = 0 THEN <<>>
                 ELSE <<n>> \o Walk(next[n], fuel - 1)

Forward == Walk(first, MaxNodes + 1)
Reachable == {Forward[i] : i \in 1..Len(Forward)}
ForwardValues == [i \in 1..Len(Forward) |-> value[Forward[i]]]
Live == 1..nalloc

\* The same walk in a list state s, and the payloads it meets.
RECURSIVE WalkIn(_, _, _)
WalkIn(s, n, fuel) == IF n = NULL \/ fuel = 0 THEN <<>>
                      ELSE <<n>> \o WalkIn(s, s.next[n], fuel - 1)

ValuesOf(s) == [i \in 1..Len(WalkIn(s, s.first, MaxNodes + 1)) |->
                  s.value[WalkIn(s, s.first, MaxNodes + 1)[i]]]

\* The sequence q without its element at zero-based position p.
DeleteAt(q, p) == [i \in 1..(Len(q) - 1) |-> IF i <= p THEN q[i] ELSE q[i + 1]]

\* The zero-based positions of the chain whose payload is v.
PositionsOf(v) == {i \in 0..(Len(Forward) - 1) : ForwardValues[i + 1] = v}
Least(S) == CHOOSE i \in S : \A j \in S : i <= j

\* ---------------------------------------------------------------- claims

\* C1: after any sequence of public operations, size is a non-negative
\* integer equal to the number of nodes reachable by next from first.
C1_SizeCountsChain == size >= 0 /\ size = Cardinality(Reachable)

\* C2: size == 0 iff first == null iff last == null; removeFirst of the
\* only node clears last.
C2_EmptyAnchors == (size = 0 <=> first = NULL) /\ (first = NULL <=> last = NULL)

\* C3: the links of the chain are symmetric: n.next == m implies
\* m.previous == n, and n.previous == m implies m.next == n.
C3_LinksSymmetric ==
  \A n \in Reachable :
    /\ next[n] # NULL => previous[next[n]] = n
    /\ previous[n] # NULL => next[previous[n]] = n

\* C4: whenever first is non-null, the walk along next from first visits
\* exactly size nodes, ends at the node last refers to, and that node's next
\* link is null.
C4_WalkEndsAtLast ==
  first # NULL =>
    /\ Len(Forward) = size
    /\ Forward[Len(Forward)] = last
    /\ next[Forward[Len(Forward)]] = NULL

\* C5: whenever the list is non-empty (first is non-null), first.previous
\* is null and last.next is null.
C5_AnchorsOuterLinksNull ==
  first # NULL => previous[first] = NULL /\ last # NULL /\ next[last] = NULL

\* C6: no public operation raises an error: no call dereferences a null
\* previous/next link.
C6_NeverThrows == ret.kind # "throw"

\* C7: on an empty list (size == 0), removeFirst(), removeLast() and get(i)
\* return absent and leave size equal to 0.
C7_EmptyListFailsIdempotently ==
  size = 0 =>
    /\ IsAbsent(removeFirst(List).ret) /\ removeFirst(List).s.size = 0
    /\ IsAbsent(removeLast(List).ret) /\ removeLast(List).s.size = 0
    /\ \A i \in Positions : IsAbsent(get(List, i))

\* C8: addLast(v) immediately followed by removeLast() returns v and leaves
\* size, first and last as they were before the addLast.
C8_AddLastRemoveLastRoundTrip ==
  nalloc < MaxNodes =>
    \A v \in Values :
      LET added == addLast(List, v)
          removed == removeLast(added.s)
      IN /\ added.ret.kind = "node"
         /\ removed.ret = ValueOf(v)
         /\ removed.s.size = size
         /\ removed.s.first = first
         /\ removed.s.last = last

\* C9: after only addFirst and addLast calls on a new list, size is the
\* number of calls, the forward order of values is the sequence built by
\* prepending each addFirst value and appending each addLast value, get(0)
\* is the head of that sequence and get(size-1) its tail.
C9_AddsBuildSequence ==
  /\ size = Len(ref)
  /\ size = nalloc
  /\ ForwardValues = ref
  /\ size > 0 =>
       /\ get(List, 0) = NodeRef(Forward[1])
       /\ get(List, size - 1) = NodeRef(Forward[size])
       /\ get(List, 0) = NodeRef(first)
       /\ get(List, size - 1) = NodeRef(last)

\* A list of three nodes built by both addFirst and addLast has been queried
\* at its tail.
C9_Witness ==
  /\ size = MaxAlloc /\ op = "get" /\ ret = NodeRef(last)
  /\ ref[1] # ref[MaxAlloc]
  /\ first > last

\* C10: add(v, 0) leaves the same list and returns the same node as
\* addFirst(v), and add(v, size) the same as addLast(v).
C10_AddAtBoundaryDelegates ==
  nalloc < MaxNodes =>
    \A v \in Values :
      /\ add(List, v, 0) = addFirst(List, v)
      /\ add(List, v, size) = addLast(List, v)

\* C11: add(v, position) returns absent if and only if position is outside
\* [0, size]; then size and the chain are unchanged; for a position inside
\* [0, size] it returns the new node and size grows by exactly 1.
C11_AddAbsentIffOutOfRange ==
  nalloc < MaxNodes =>
    \A v \in Values, p \in Positions :
      LET r == add(List, v, p)
      IN /\ IsAbsent(r.ret) <=> p \notin 0..size
         /\ IsAbsent(r.ret) => r.s = List
         /\ p \in 0..size => r.ret = NodeRef(nalloc + 1) /\ r.s.size = size + 1

\* C12: get(index) returns absent if and only if index is outside
\* [0, size-1]; for an index inside it returns the node reached from first
\* by index next-steps.
C12_GetAbsentIffOutOfRange ==
  \A i \in Positions :
    LET r == get(List, i)
    IN /\ IsAbsent(r) <=> i \notin 0..(size - 1)
       /\ i \in 0..(size - 1) => i < Len(Forward) /\ r = NodeRef(Forward[i + 1])

\* C13: removeByPosition(position) with 0 <= position <= size-1 returns the
\* value of the node at that position, decrements size by exactly 1 and
\* leaves the prior forward order of values with that one element removed.
C13_RemoveByPositionRemovesThatNode ==
  \A p \in Positions :
    p \in 0..(size - 1) =>
      LET r == removeByPosition(List, p)
      IN /\ p < Len(Forward)
         /\ r.ret = ValueOf(ForwardValues[p + 1])
         /\ r.s.size = size - 1
         /\ ValuesOf(r.s) = DeleteAt(ForwardValues, p)

\* C14: removeByPosition(position) with position outside [0, size-1] returns
\* absent and removes nothing: size, first, last and the chain are unchanged.
C14_RemoveByPositionOutOfRange ==
  \A p \in Positions :
    p \notin 0..(size - 1) =>
      LET r == removeByPosition(List, p)
      IN IsAbsent(r.ret) /\ r.s = List

\* C15: remove(predicate) returns false and leaves size and the chain
\* unchanged if no node satisfies the predicate; otherwise it removes exactly
\* the first node satisfying it, returns that node's value and decrements
\* size by 1.
C15_RemoveByPredicate ==
  \A v \in Values :
    LET r == remove(List, FunctionArg(v))
    IN IF PositionsOf(v) = {}
         THEN r.ret = False /\ r.s = List
         ELSE /\ r.ret = ValueOf(v)
              /\ r.s.size = size - 1
              /\ ValuesOf(r.s) = DeleteAt(ForwardValues, Least(PositionsOf(v)))

\* The position a non-function argument of remove stands for: the number
\* itself, and 0 for a text that is not a number.
PositionMeant(arg) == IF arg.kind = "number" THEN arg.val ELSE 0

\* Whether the argument of remove resolves to a node of the chain.
Resolves(arg) == IF arg.kind = "function" THEN PositionsOf(arg.val) # {}
                 ELSE PositionMeant(arg) \in 0..(Len(Forward) - 1)

\* C16: remove(arg) returns false whenever no matching element is found and
\* nothing is removed, for a predicate that no node satisfies and for a
\* position that does not resolve to a node alike; otherwise it returns the
\* removed value, that of the node the argument resolves to.
C16_RemoveFalseWhenNothingFound ==
  \A arg \in RemoveArgs :
    IF Resolves(arg)
      THEN remove(List, arg).ret =
             ValueOf(IF arg.kind = "function" THEN arg.val
                     ELSE ForwardValues[PositionMeant(arg) + 1])
      ELSE remove(List, arg).ret = False /\ remove(List, arg).s = List

\* C17: indexOf(value) returns the smallest zero-based position of the
\* forward chain whose node holds value (0 when the head matches), and
\* absent if no node of the chain holds it.
C17_IndexOfFirstMatch ==
  /\ \A v \in Values :
       indexOf(List, v) = IF PositionsOf(v) = {} THEN Undefined
                          ELSE IndexOf(Least(PositionsOf(v)))
  /\ op = "indexOf" =>
       \E v \in Values :
         ret = IF PositionsOf(v) = {} THEN Undefined
               ELSE IndexOf(Least(PositionsOf(v)))

\* indexOf returned 0 for a value the head holds and a later node holds too.
C17_Witness ==
  /\ op = "indexOf" /\ ret = IndexOf(0)
  /\ first # NULL /\ Cardinality(PositionsOf(value[first])) >= 2
  /\ \E v \in Values : PositionsOf(v) = {}

\* The zero-based positions of the chain at which a callback gives a result.
HitsOf(callback) ==
  {i \in 0..(Len(Forward) - 1) : callback[Forward[i + 1], i] # Undefined}

\* C18: find(callback) invokes callback(node, position) on the nodes of the
\* chain in order with positions 0, 1, 2, ...; it stops at the first
\* invocation whose result is not undefined (falsy results included),
\* returns that result and invokes no further; it returns absent if every
\* invocation over the whole chain returns absent.
C18_FindStopsAtFirstResult ==
  \A hits \in CallbackHits, result \in CallbackResults :
    LET callback == Callback(hits, result)
        calls == findCalls(List, callback, first, 0)
    IN /\ \A k \in 1..Len(calls) : calls[k] = <<Forward[k], k - 1>>
       /\ IF HitsOf(callback) = {}
            THEN Len(calls) = Len(Forward) /\ find(List, callback) = Undefined
            ELSE /\ Len(calls) = Least(HitsOf(callback)) + 1
                 /\ find(List, callback) = result

\* find returned the falsy result false on a chain of three nodes.
C18_Witness ==
  /\ op = "find" /\ ret = False
  /\ Len(Forward) = MaxAlloc

\* C19: with only push/addLast, pop/removeLast, unshift/addFirst and
\* shift/removeFirst called, each removal returns what the reference
\* double-ended queue returns (its end element, absent when it is empty), and
\* size and the forward order of values equal those of the reference.
C19_BehavesAsDeque ==
  /\ size = Len(ref)
  /\ ForwardValues = ref
  /\ IF ref = <<>>
       THEN IsAbsent(removeFirst(List).ret) /\ IsAbsent(removeLast(List).ret)
       ELSE /\ removeFirst(List).ret = ValueOf(ref[1])
            /\ removeLast(List).ret = ValueOf(ref[Len(ref)])

\* C20: the chain of next links from first is acyclic, so every traversal
\* (find, get, indexOf, remove, removeByPosition, add) terminates.
C20_ChainAcyclic ==
  /\ Len(Forward) <= MaxNodes
  /\ Cardinality(Reachable) = Len(Forward)
  /\ ret.kind # "diverge"
  /\ \A i \in Positions : get(List, i).kind # "diverge"
  /\ \A v \in Values : indexOf(List, v).kind # "diverge"

\* removeByPosition has run on a chain of three nodes whose previous links
\* no longer mirror the next links.
C20_Witness ==
  /\ op = "removeByPosition" /\ ret.kind = "value"
  /\ Len(Forward) >= 3
  /\ ~C3_LinksSymmetric

====
